---- MODULE Spec2Model ----
(***************************************************************************)
(* component_vis/multimodel_evaluation.py: similarity_evaluation,          *)
(* get_model_with_lowest_error and sort_models_by_error.                   *)
(*                                                                         *)
(* One call runs at a time.  A call action draws the arguments, the loop   *)
(* actions run one iteration each (one collaborator call per iteration),   *)
(* and the return actions build the returned value.  A collaborator that   *)
(* raises ends the call in pc = "raised".                                  *)
(***************************************************************************)
EXTENDS Integers, Sequences, FiniteSets, TLC

\* ------------------------------------------------------------------ bounds
MaxLen == 3
MaxErr == 2

\* ------------------------------------------------------------------ values
\* Python's None, and a present value, as sequences of length 0 and 1.
None == << >>
Some(x) == << x >>

\* CP tensors.  Orderable ones support == and < among themselves (plain
\* tuples of numbers); an opaque one holds arrays: compared with a different
\* model, == or < raises.  Any model compared with itself is equal (tuple
\* comparison checks identity first).
Orderable == {1, 2}
Opaque == {3}
ModelVals == Orderable \cup Opaque

\* The dataset: a numpy array, or an xarray DataArray (for which the error
\* function returns a 0-d DataArray instead of a float).
Datasets == {"ndarray", "xarray"}

\* Floats: finite numbers 0..MaxErr, +inf and NaN; box is the Python type
\* the number arrives in.
Float(k, n) == [box |-> "float", kind |-> k, n |-> n]
Num(n) == Float("num", n)
Inf == Float("inf", 0)
NaN == Float("nan", 0)
PlainFloats == {Num(n) : n \in 0..MaxErr} \cup {Inf, NaN}

\* What a collaborator call produces: a float, or an exception.
Raise == [box |-> "exception", kind |-> "raise", n |-> 0]
Outcomes == PlainFloats \cup {Raise}

\* float < float.  Every comparison with NaN is False; inf < inf is False.
Lt(a, b) ==
    /\ a.kind # "nan"
    /\ b.kind # "nan"
    /\ \/ a.kind = "num" /\ b.kind = "num" /\ a.n < b.n
       \/ a.kind = "num" /\ b.kind = "inf"

\* float == float.  NaN equals nothing, itself included.
EqV(a, b) ==
    /\ a.kind # "nan"
    /\ b.kind # "nan"
    /\ a.kind = b.kind
    /\ a.n = b.n

\* error_function(cp_tensor, X): the function's value for the model, boxed
\* as a DataArray when the dataset is an xarray.
CallError(f, m, x) ==
    IF f[m] = Raise THEN Raise
    ELSE [f[m] EXCEPT !.box = IF x = "xarray" THEN "DataArray" ELSE "float"]

\* np.asarray(error).item(): the plain Python float of the same value.
Item(e) == [e EXCEPT !.box = "float"]

\* ------------------------------------------------------------------ helpers
Range(s) == {s[k] : k \in 1..Len(s)}

SeqsUpTo(S, n) == UNION {[1..k -> S] : k \in 0..n}

\* list.append
Append1(s, e) == s \o << e >>

\* ------------------------------------------------------------------ sorted()
\* (error, cp_tensor) < (error, cp_tensor), Python's tuple comparison: the
\* first components decide unless they are ==; then the models decide, which
\* are equal when they are the same model, ordered when both are orderable,
\* and whose comparison raises otherwise.  "true", "false" or "raise".
PairLt(p, q) ==
    IF ~EqV(p[1], q[1]) THEN (IF Lt(p[1], q[1]) THEN "true" ELSE "false")
    ELSE IF p[2] = q[2] THEN "false"
    ELSE IF p[2] \in Orderable /\ q[2] \in Orderable
         THEN (IF p[2] < q[2] THEN "true" ELSE "false")
    ELSE "raise"

\* zip(errors, cp_tensors)
Zip(es, ms) ==
    [k \in 1..(IF Len(es) < Len(ms) THEN Len(es) ELSE Len(ms)) |-> << es[k], ms[k] >>]

Reverse(s) == [k \in 1..Len(s) |-> s[Len(s) + 1 - k]]

\* The list sort of CPython for fewer than 64 elements: the leading run
\* (ascending, or strictly descending and then reversed) is found with <,
\* and every later element is placed into the sorted prefix by binary
\* insertion with <.  A comparison that raises ends the sort.
\* RunEnd: the length of the leading run, or -1 when a comparison raises.
RECURSIVE RunEnd(_, _, _)
RunEnd(s, k, desc) ==
    IF k > Len(s) THEN k - 1
    ELSE LET c == PairLt(s[k], s[k - 1])
         IN  IF c = "raise" THEN -1
             ELSE IF (c = "true") = desc THEN RunEnd(s, k + 1, desc)
             ELSE k - 1

\* The slot of pivot in the sorted prefix s[l..r-1], or -1 when a comparison
\* raises.
RECURSIVE BinarySlot(_, _, _, _)
BinarySlot(s, pivot, l, r) ==
    IF l >= r THEN l
    ELSE LET p == l + ((r - l) \div 2)
             c == PairLt(pivot, s[p])
         IN  IF c = "raise" THEN -1
             ELSE IF c = "true" THEN BinarySlot(s, pivot, l, p)
             ELSE BinarySlot(s, pivot, p + 1, r)

RECURSIVE BinarySort(_, _)
BinarySort(s, start) ==
    IF start > Len(s) THEN [ok |-> TRUE, val |-> s]
    ELSE LET l == BinarySlot(s, s[start], 1, start)
         IN  IF l = -1 THEN [ok |-> FALSE, val |-> << >>]
             ELSE BinarySort(
                    SubSeq(s, 1, l - 1) \o << s[start] >>
                      \o SubSeq(s, l, start - 1) \o SubSeq(s, start + 1, Len(s)),
                    start + 1)

\* sorted(pairs): [ok |-> TRUE, val |-> the sorted list], or ok = FALSE when
\* a comparison raised.
Sorted(s) ==
    IF Len(s) < 2 THEN [ok |-> TRUE, val |-> s]
    ELSE LET c == PairLt(s[2], s[1])
         IN  IF c = "raise" THEN [ok |-> FALSE, val |-> << >>]
             ELSE LET desc == (c = "true")
                      n == RunEnd(s, 3, desc)
                  IN  IF n = -1 THEN [ok |-> FALSE, val |-> << >>]
                      ELSE BinarySort(
                             IF desc
                             THEN Reverse(SubSeq(s, 1, n)) \o SubSeq(s, n + 1, Len(s))
                             ELSE s,
                             n + 1)

\* ------------------------------------------------------------------ metrics
\* Similarity metrics the caller can pass; each is a function of the two
\* CP tensors and the keyword arguments.
\*   second : returns its second argument      first : returns its first
\*   ones   : returns 1                        kw    : returns the keyword value
\*   equal  : 1 when the two models are equal, else 0
\*   fail_on: raises when its second argument is `on`, else returns it
Kwargs == {0, 7}
Metrics ==
    {[kind |-> k, on |-> 0] : k \in {"second", "first", "ones", "kw", "equal"}}
      \cup {[kind |-> "fail_on", on |-> m] : m \in ModelVals}

\* similarity_metric(cp_tensor, comparison_cp_tensor, **kwargs)
CallMetric(metric, a, b, kw) ==
    CASE metric.kind = "second" -> b
      [] metric.kind = "first" -> a
      [] metric.kind = "ones" -> 1
      [] metric.kind = "kw" -> kw
      [] metric.kind = "equal" -> (IF a = b THEN 1 ELSE 0)
      [] metric.kind = "fail_on" -> (IF b = metric.on THEN -1 ELSE b)

\* Whether that call raises.
MetricRaises(metric, a, b, kw) == metric.kind = "fail_on" /\ b = metric.on

\* ------------------------------------------------------------------ state
VARIABLES
    pc,                    \* "idle", "sim_loop", "lowest_loop", "sort_sorted",
                           \* "sort_return", "returned", "raised"
    op,                    \* the function the caller called
    given,                 \* the caller's arguments as they were at the call
    calls,                 \* the collaborator calls made so far, in order
    ret,                   \* the value returned to the caller
    exception,             \* the exception the call ended in: who raised it,
                           \* and at which element
    \* similarity_evaluation
    cp_tensor, comparison_cp_tensors, similarity_metric, kwargs, similarity,
    \* get_model_with_lowest_error
    cp_tensors, X, error_function,
    i, selected_cp_tensor, selected_index, lowest_sse, all_sse,
    \* sort_models_by_error
    errors, sorted_tensors,
    \* the functions of the sibling modules used when none is passed
    factor_match_score, relative_sse

simVars == << cp_tensor, comparison_cp_tensors, similarity_metric, kwargs, similarity >>
lowestVars == << i, selected_cp_tensor, selected_index, lowest_sse, all_sse >>
errArgs == << cp_tensors, X, error_function >>
sortVars == << errors, sorted_tensors >>
defaults == << factor_match_score, relative_sse >>
vars == << pc, op, given, calls, ret, exception, simVars, errArgs, lowestVars, sortVars, defaults >>

\* The error functions a call can use: any outcome for each model passed.
ErrorFunctions(models) == [Range(models) -> Outcomes]

ModelLists == SeqsUpTo(ModelVals, MaxLen)

Init ==
    /\ pc = "idle"
    /\ op = "none"
    /\ given = None
    /\ calls = << >>
    /\ ret = None
    /\ exception = None
    /\ cp_tensor = None
    /\ comparison_cp_tensors = << >>
    /\ similarity_metric = None
    /\ kwargs = None
    /\ similarity = << >>
    /\ cp_tensors = << >>
    /\ X = None
    /\ error_function = None
    /\ i = 0
    /\ selected_cp_tensor = None
    /\ selected_index = None
    /\ lowest_sse = None
    /\ all_sse = << >>
    /\ errors = None
    /\ sorted_tensors = None
    /\ factor_match_score = None
    /\ relative_sse = None

\* ------------------------------------------------------------------ similarity_evaluation
\* The caller calls similarity_evaluation(cp_tensor, comparison_cp_tensors,
\* similarity_metric, **kwargs); passed = FALSE leaves similarity_metric None
\* and factor_match_score is used.
Call_similarity_evaluation ==
    /\ pc = "idle"
    /\ \E a \in ModelVals, cs \in ModelLists, metric \in Metrics,
          kw \in Kwargs, passed \in BOOLEAN :
          /\ cp_tensor' = a
          /\ comparison_cp_tensors' = cs
          /\ kwargs' = kw
          /\ factor_match_score' = IF passed THEN None ELSE Some(metric)
          /\ similarity_metric' =
                IF passed THEN metric ELSE factor_match_score'[1]
          /\ given' = [cp_tensor |-> a, models |-> cs, kwargs |-> kw,
                       passed |-> passed, X |-> None]
    /\ op' = "similarity_evaluation"
    /\ similarity' = << >>
    /\ pc' = "sim_loop"
    /\ UNCHANGED << calls, ret, exception, errArgs, lowestVars, sortVars, relative_sse >>

\* similarity_iteration with the two CP tensors passed in the other order.
similarity_iteration_swapped ==
    /\ pc = "sim_loop"
    /\ Len(similarity) < Len(comparison_cp_tensors)
    /\ LET comparison_cp_tensor == comparison_cp_tensors[Len(similarity) + 1]
       IN  /\ calls' = Append1(calls, << comparison_cp_tensor, cp_tensor, kwargs >>)
           /\ IF MetricRaises(similarity_metric, comparison_cp_tensor, cp_tensor, kwargs)
              THEN /\ pc' = "raised"
                   /\ exception' = Some([from |-> "similarity_metric",
                                         at |-> Len(similarity)])
                   /\ UNCHANGED similarity
              ELSE /\ similarity' = Append1(similarity,
                         CallMetric(similarity_metric, comparison_cp_tensor,
                                    cp_tensor, kwargs))
                   /\ UNCHANGED << pc, exception >>
    /\ UNCHANGED << op, given, ret, cp_tensor, comparison_cp_tensors,
                    similarity_metric, kwargs, errArgs, lowestVars, sortVars,
                    defaults >>

\* One element of the list comprehension (lines 36-39).
similarity_iteration ==
    /\ pc = "sim_loop"
    /\ Len(similarity) < Len(comparison_cp_tensors)
    /\ LET comparison_cp_tensor == comparison_cp_tensors[Len(similarity) + 1]
       IN  /\ calls' = Append1(calls, << cp_tensor, comparison_cp_tensor, kwargs >>)
           /\ IF MetricRaises(similarity_metric, cp_tensor, comparison_cp_tensor, kwargs)
              THEN /\ pc' = "raised"
                   /\ exception' = Some([from |-> "similarity_metric",
                                         at |-> Len(similarity)])
                   /\ UNCHANGED similarity
              ELSE /\ similarity' = Append1(similarity,
                         CallMetric(similarity_metric, cp_tensor,
                                    comparison_cp_tensor, kwargs))
                   /\ UNCHANGED << pc, exception >>
    /\ UNCHANGED << op, given, ret, cp_tensor, comparison_cp_tensors,
                    similarity_metric, kwargs, errArgs, lowestVars, sortVars,
                    defaults >>

similarity_return ==
    /\ pc = "sim_loop"
    /\ Len(similarity) = Len(comparison_cp_tensors)
    /\ ret' = Some(similarity)
    /\ pc' = "returned"
    /\ UNCHANGED << op, given, calls, exception, simVars, errArgs, lowestVars, sortVars, defaults >>

\* ------------------------------------------------------------------ get_model_with_lowest_error
\* EnterLowest with the selection starting at the first position instead of
\* at None.
EnterLowest_index0(models, x, f, passed) ==
    /\ cp_tensors' = models
    /\ X' = x
    /\ relative_sse' = IF passed THEN None ELSE Some(f)
    /\ error_function' = IF passed THEN f ELSE relative_sse'[1]
    /\ selected_cp_tensor' = None
    /\ selected_index' = Some(0)
    /\ lowest_sse' = Inf
    /\ all_sse' = << >>
    /\ i' = 0
    /\ given' = [cp_tensor |-> None, models |-> models, kwargs |-> None,
                 passed |-> passed, X |-> x]
    /\ pc' = "lowest_loop"

\* The body before the loop (lines 71-77); entered from the caller and from
\* sort_models_by_error.
EnterLowest(models, x, f, passed) ==
    /\ cp_tensors' = models
    /\ X' = x
    /\ relative_sse' = IF passed THEN None ELSE Some(f)
    /\ error_function' = IF passed THEN f ELSE relative_sse'[1]
    /\ selected_cp_tensor' = None
    /\ selected_index' = None
    /\ lowest_sse' = Inf
    /\ all_sse' = << >>
    /\ i' = 0
    /\ given' = [cp_tensor |-> None, models |-> models, kwargs |-> None,
                 passed |-> passed, X |-> x]
    /\ pc' = "lowest_loop"

Call_get_model_with_lowest_error ==
    /\ pc = "idle"
    /\ \E models \in ModelLists, x \in Datasets, passed \in BOOLEAN :
         \E f \in ErrorFunctions(models) : EnterLowest(models, x, f, passed)
    /\ op' = "get_model_with_lowest_error"
    /\ UNCHANGED << calls, ret, exception, simVars, sortVars, factor_match_score >>

\* lowest_iteration recording an error only when it becomes the lowest.
lowest_iteration_append_on_improve ==
    /\ pc = "lowest_loop"
    /\ i < Len(cp_tensors)
    /\ LET model == cp_tensors[i + 1]
           sse == CallError(error_function, model, X)
       IN  /\ calls' = Append1(calls, << model, X >>)
           /\ IF sse = Raise
              THEN /\ pc' = "raised"
                   /\ exception' = Some([from |-> "error_function", at |-> i])
                   /\ UNCHANGED lowestVars
              ELSE /\ IF Lt(sse, lowest_sse)
                      THEN /\ all_sse' = Append1(all_sse, sse)
                           /\ selected_cp_tensor' = Some(model)
                           /\ lowest_sse' = sse
                           /\ selected_index' = Some(i)
                      ELSE UNCHANGED << all_sse, selected_cp_tensor, lowest_sse,
                                        selected_index >>
                   /\ i' = i + 1
                   /\ UNCHANGED << pc, exception >>
    /\ UNCHANGED << op, given, ret, simVars, errArgs, sortVars, defaults >>

\* lowest_iteration catching the exception and going on to the next model.
lowest_iteration_skip_failed ==
    /\ pc = "lowest_loop"
    /\ i < Len(cp_tensors)
    /\ LET model == cp_tensors[i + 1]
           sse == CallError(error_function, model, X)
       IN  /\ calls' = Append1(calls, << model, X >>)
           /\ IF sse = Raise
              THEN /\ i' = i + 1
                   /\ UNCHANGED << pc, exception, selected_cp_tensor,
                                   selected_index, lowest_sse, all_sse >>
              ELSE /\ all_sse' = Append1(all_sse, sse)
                   /\ IF Lt(sse, lowest_sse)
                      THEN /\ selected_cp_tensor' = Some(model)
                           /\ lowest_sse' = sse
                           /\ selected_index' = Some(i)
                      ELSE UNCHANGED << selected_cp_tensor, lowest_sse, selected_index >>
                   /\ i' = i + 1
                   /\ UNCHANGED << pc, exception >>
    /\ UNCHANGED << op, given, ret, simVars, errArgs, sortVars, defaults >>

\* One iteration of the loop (lines 78-84).
lowest_iteration ==
    /\ pc = "lowest_loop"
    /\ i < Len(cp_tensors)
    /\ LET model == cp_tensors[i + 1]
           sse == CallError(error_function, model, X)
       IN  /\ calls' = Append1(calls, << model, X >>)
           /\ IF sse = Raise
              THEN /\ pc' = "raised"
                   /\ exception' = Some([from |-> "error_function", at |-> i])
                   /\ UNCHANGED lowestVars
              ELSE /\ all_sse' = Append1(all_sse, sse)
                   /\ IF Lt(sse, lowest_sse)
                      THEN /\ selected_cp_tensor' = Some(model)
                           /\ lowest_sse' = sse
                           /\ selected_index' = Some(i)
                      ELSE UNCHANGED << selected_cp_tensor, lowest_sse, selected_index >>
                   /\ i' = i + 1
                   /\ UNCHANGED << pc, exception >>
    /\ UNCHANGED << op, given, ret, simVars, errArgs, sortVars, defaults >>

\* Line 86, returning to the caller.
lowest_return ==
    /\ pc = "lowest_loop"
    /\ i = Len(cp_tensors)
    /\ op = "get_model_with_lowest_error"
    /\ ret' = Some(<< selected_cp_tensor, selected_index, all_sse >>)
    /\ pc' = "returned"
    /\ UNCHANGED << op, given, calls, exception, simVars, errArgs, lowestVars, sortVars, defaults >>

\* ------------------------------------------------------------------ sort_models_by_error
\* The argument list after an in-place sort (list.sort) instead of sorted().
ArgumentSortedInPlace(argument, result) ==
    [k \in 1..Len(result) |-> result[k][2]]

\* sorted() builds a new list: the list passed in stays as it was.
ArgumentAfterSorted(argument, result) == argument

Call_sort_models_by_error ==
    /\ pc = "idle"
    /\ \E models \in ModelLists, x \in Datasets, passed \in BOOLEAN :
         \E f \in ErrorFunctions(models) : EnterLowest(models, x, f, passed)
    /\ op' = "sort_models_by_error"
    /\ UNCHANGED << calls, ret, exception, simVars, sortVars, factor_match_score >>

\* Line 86 returning into lines 110-112: errors is element 2 of the triple.
lowest_return_to_sort ==
    /\ pc = "lowest_loop"
    /\ i = Len(cp_tensors)
    /\ op = "sort_models_by_error"
    /\ errors' = Some(<< selected_cp_tensor, selected_index, all_sse >>[3])
    /\ pc' = "sort_sorted"
    /\ UNCHANGED << op, given, calls, ret, exception, simVars, errArgs,
                    lowestVars, sorted_tensors, defaults >>

\* Line 113.
sort_sorted ==
    /\ pc = "sort_sorted"
    /\ LET r == Sorted(Zip(errors[1], cp_tensors))
       IN  IF r.ok
           THEN /\ sorted_tensors' = Some(r.val)
                /\ cp_tensors' = ArgumentAfterSorted(cp_tensors, r.val)
                /\ pc' = "sort_return"
                /\ UNCHANGED exception
           ELSE /\ pc' = "raised"
                /\ exception' = Some([from |-> "sorted", at |-> 0])
                /\ UNCHANGED << sorted_tensors, cp_tensors >>
    /\ UNCHANGED << op, given, calls, ret, simVars, X, error_function,
                    lowestVars, errors, defaults >>

\* Lines 115-118.
sort_return ==
    /\ pc = "sort_return"
    /\ LET st == sorted_tensors[1]
       IN  ret' = Some(<< [k \in 1..Len(st) |-> st[k][2]],
                          [k \in 1..Len(st) |-> Item(st[k][1])] >>)
    /\ pc' = "returned"
    /\ UNCHANGED << op, given, calls, exception, simVars, errArgs, lowestVars, sortVars, defaults >>

Next ==
    \/ Call_similarity_evaluation
    \/ similarity_iteration
    \/ similarity_return
    \/ Call_get_model_with_lowest_error
    \/ lowest_iteration
    \/ lowest_return
    \/ Call_sort_models_by_error
    \/ lowest_return_to_sort
    \/ sort_sorted
    \/ sort_return

Spec == Init /\ [][Next]_vars

\* ------------------------------------------------------------------ claims
Returned(f) == pc = "returned" /\ op = f

\* The calls similarity_evaluation makes for the first n comparison models.
MetricCalls(n) ==
    [k \in 1..n |-> << given.cp_tensor, given.models[k], given.kwargs >>]

\* The calls the error loop makes for the first n models.
ErrorCalls(n) == [k \in 1..n |-> << given.models[k], given.X >>]

\* C3: similarity_evaluation returns one value per comparison model, the
\* k-th being similarity_metric(cp_tensor, comparison_cp_tensors[k], **kwargs),
\* and has called the metric exactly once per comparison model, in input
\* order (the empty list included).
C3_SimilarityPerElement ==
    Returned("similarity_evaluation") =>
        /\ Len(ret[1]) = Len(given.models)
        /\ \A k \in 1..Len(given.models) :
              ret[1][k] = CallMetric(similarity_metric, given.cp_tensor,
                                     given.models[k], given.kwargs)
        /\ calls = MetricCalls(Len(given.models))

C3_Witness ==
    /\ Returned("similarity_evaluation")
    /\ Len(given.models) >= 2
    /\ given.models[1] # given.models[2]
    /\ similarity_metric.kind = "second"
    /\ ret[1] = given.models

\* C4: while get_model_with_lowest_error loops, and in what it returns, the
\* errors list has one entry per model processed so far, entry k being
\* error_function(models[k], dataset), and the error function has been called
\* once per processed model in index order; the returned list is as long as
\* models.
C4_ErrorsAligned ==
    /\ (op = "get_model_with_lowest_error" /\ pc = "lowest_loop") =>
          /\ Len(all_sse) = i
          /\ \A k \in 1..i :
                all_sse[k] = CallError(error_function, given.models[k], given.X)
          /\ calls = ErrorCalls(i)
    /\ Returned("get_model_with_lowest_error") =>
          /\ Len(ret[1][3]) = Len(given.models)
          /\ \A k \in 1..Len(given.models) :
                ret[1][3][k] = CallError(error_function, given.models[k], given.X)
          /\ calls = ErrorCalls(Len(given.models))

C4_Witness ==
    /\ Returned("get_model_with_lowest_error")
    /\ Len(ret[1][3]) >= 3
    /\ ret[1][3][1] # ret[1][3][2]
    /\ ret[1][3][3] = ret[1][3][2]
    /\ ret[1][2] = Some(1)

\* C5: for an empty models list get_model_with_lowest_error returns
\* (None, None, []) without calling the error function, and
\* sort_models_by_error returns two empty lists.
C5_EmptyInput ==
    /\ (Returned("get_model_with_lowest_error") /\ given.models = << >>) =>
          /\ ret = Some(<< None, None, << >> >>)
          /\ calls = << >>
    /\ (Returned("sort_models_by_error") /\ given.models = << >>) =>
          ret = Some(<< << >>, << >> >>)
    /\ (op \in {"get_model_with_lowest_error", "sort_models_by_error"}
          /\ given.models = << >>) => pc # "raised"

C5_Witness ==
    /\ Returned("get_model_with_lowest_error")
    /\ given.models = << >>
    /\ ret = Some(<< None, None, << >> >>)

C5_WitnessSort ==
    /\ Returned("sort_models_by_error")
    /\ given.models = << >>
    /\ ret = Some(<< << >>, << >> >>)

\* C7: when the collaborator raises on element k (0-based), the call is over
\* with that exception and no return value: the collaborator was called on
\* elements 0..k once each and on nothing after, the failing element added
\* nothing to the results, and no further step is taken.  A call whose
\* collaborator raises on some element never gets past the loop, so it
\* returns nothing.
C7_FailFast ==
    /\ Returned("similarity_evaluation") =>
          \A k \in 1..Len(given.models) :
             ~MetricRaises(similarity_metric, given.cp_tensor, given.models[k],
                           given.kwargs)
    /\ (pc \in {"sort_sorted", "sort_return", "returned"}
          /\ op # "similarity_evaluation") =>
          \A k \in 1..Len(given.models) : error_function[given.models[k]] # Raise
    /\ (pc = "raised" /\ exception[1].from # "sorted") =>
        LET k == exception[1].at
        IN  /\ ret = None
            /\ k < Len(given.models)
            /\ ~ENABLED Next
            /\ op = "similarity_evaluation" =>
                  /\ exception[1].from = "similarity_metric"
                  /\ calls = MetricCalls(k + 1)
                  /\ Len(similarity) = k
                  /\ MetricRaises(similarity_metric, given.cp_tensor,
                                  given.models[k + 1], given.kwargs)
            /\ op # "similarity_evaluation" =>
                  /\ exception[1].from = "error_function"
                  /\ calls = ErrorCalls(k + 1)
                  /\ Len(all_sse) = k
                  /\ error_function[given.models[k + 1]] = Raise
                  /\ errors = None
                  /\ sorted_tensors = None

C7_Witness ==
    /\ pc = "raised"
    /\ op = "sort_models_by_error"
    /\ exception[1].from = "error_function"
    /\ exception[1].at = 1
    /\ Len(given.models) = 3

C7_WitnessSimilarity ==
    /\ pc = "raised"
    /\ op = "similarity_evaluation"
    /\ exception[1].at = 1
    /\ Len(given.models) = 3

\* C8: during and after a call the caller's arguments are what they were at
\* the call: the models list has the same elements in the same order, and
\* the dataset, the primary model and the keyword arguments are unchanged.
C8_InputsUnchanged ==
    /\ op = "similarity_evaluation" =>
          /\ comparison_cp_tensors = given.models
          /\ cp_tensor = given.cp_tensor
          /\ kwargs = given.kwargs
    /\ op \in {"get_model_with_lowest_error", "sort_models_by_error"} =>
          /\ cp_tensors = given.models
          /\ X = given.X

C8_Witness ==
    /\ Returned("sort_models_by_error")
    /\ ret[1][1] # given.models
    /\ cp_tensors = given.models

\* How many times m occurs in s.
Count(s, m) == Cardinality({k \in 1..Len(s) : s[k] = m})

\* e is a minimum of the errors es: no error of es is below it.
IsMinimum(e, es) == \A k \in 1..Len(es) : ~Lt(es[k], e)

\* Two models can be compared: they are the same model, or both orderable.
Comparable(a, b) == a = b \/ (a \in Orderable /\ b \in Orderable)

\* C1: for a non-empty models list get_model_with_lowest_error returns the
\* index of the first position whose error equals the minimum of the errors,
\* and the model at that index.
C1_FirstMinimum ==
    (Returned("get_model_with_lowest_error") /\ Len(given.models) > 0) =>
        LET es == ret[1][3]
        IN  /\ ret[1][2] # None
            /\ LET idx == ret[1][2][1] + 1
               IN  /\ idx \in 1..Len(es)
                   /\ IsMinimum(es[idx], es)
                   /\ \A k \in 1..(idx - 1) : ~EqV(es[k], es[idx])
                   /\ ret[1][1] = Some(given.models[idx])

\* C2: the pair sort_models_by_error returns has two lists as long as
\* models, the errors are non-decreasing (no error is below an earlier
\* one), the models are a permutation of
\* the input, and the k-th error is the (scalar) error of the k-th model.
C2_SortedPair ==
    Returned("sort_models_by_error") =>
        LET sm == ret[1][1]
            se == ret[1][2]
        IN  /\ Len(sm) = Len(given.models)
            /\ Len(se) = Len(given.models)
            /\ \A j, k \in 1..Len(se) : j < k => ~Lt(se[k], se[j])
            /\ \A m \in ModelVals : Count(sm, m) = Count(given.models, m)
            /\ \A k \in 1..Len(sm) :
                  se[k] = Item(CallError(error_function, sm[k], given.X))

\* C6: for a non-empty models list get_model_with_lowest_error never returns
\* None: the index is an integer in 0..len(models)-1 and the model is one of
\* models, whatever error values the error function returns.
C6_NoneOnlyWhenEmpty ==
    (Returned("get_model_with_lowest_error") /\ Len(given.models) > 0) =>
        /\ ret[1][2] # None
        /\ ret[1][2][1] \in 0..(Len(given.models) - 1)
        /\ ret[1][1] # None
        /\ ret[1][1][1] \in Range(given.models)

\* C9: sort_models_by_error orders models of equal error by the model values
\* (not by input position), and it returns no result when two models of
\* equal error cannot be compared.
C9_TiesByModelValue ==
    Returned("sort_models_by_error") =>
        LET sm == ret[1][1]
            se == ret[1][2]
        IN  /\ \A j, k \in 1..Len(sm) :
                  (j < k /\ EqV(se[j], se[k])) =>
                      (sm[j] = sm[k] \/
                         (sm[j] \in Orderable /\ sm[k] \in Orderable /\ sm[j] < sm[k]))
            /\ \A j, k \in 1..Len(all_sse) :
                  EqV(all_sse[j], all_sse[k]) =>
                      Comparable(given.models[j], given.models[k])

\* C10: for a non-empty models list the first error sort_models_by_error
\* returns is the error at the index get_model_with_lowest_error returned
\* to it, and when exactly one position attains the minimum error the first
\* model returned is the selected model.
C10_RankerAgreesWithSelector ==
    (Returned("sort_models_by_error") /\ Len(given.models) > 0) =>
        /\ selected_index # None
        /\ ret[1][2][1] = Item(all_sse[selected_index[1] + 1])
        /\ Cardinality({k \in 1..Len(all_sse) : IsMinimum(all_sse[k], all_sse)}) = 1
              => ret[1][1][1] = selected_cp_tensor[1]

====
